---- MODULE Spec2Model ----
(***************************************************************************)
(* go-auth-service: the authentication service (AuthService), the          *)
(* PostgreSQL repository behind it (UserRepository) and the HTTP status    *)
(* mapping of the handlers (AuthHandler).                                  *)
(*                                                                         *)
(* Every SQL statement is one atomic step (the pool runs each statement in *)
(* autocommit mode); a service call is a sequence of such steps and the    *)
(* calls of different requests interleave between statements.              *)
(*                                                                         *)
(* A users row is named by its email: id is a SERIAL primary key and email *)
(* is UNIQUE, so ids and emails of stored rows are in bijection.           *)
(***************************************************************************)
EXTENDS Integers, FiniteSets, Sequences, TLC

VARIABLES
    users,         \* users table: email -> row, for the emails that have a row
    sessions,      \* sessions table: set of rows
    now,           \* the clock (time.Now / CURRENT_TIMESTAMP), in hours
    proc,          \* per request goroutine: position in the call and its locals
    issued,        \* token strings that LoginUser has returned to a caller
    consecFailed,  \* history: wrong-password logins completed since the last verified login
    resetFrom,     \* history: value of consecFailed wiped by the last verified login
    lockCount,     \* history: number of executed is_active = false updates per account
    fiveFailed,    \* history: accounts against which 5 consecutive failed logins have completed
    loggedOut,     \* history: tokens for which LogoutUser has returned nil
    visitors,      \* per rate limiter instance: rl.visitors, key -> visitor
    mu,            \* per rate limiter instance: holder of the mutex (0: unlocked)
    req,           \* per request goroutine: position in isAllowed and its locals
    window         \* history, per instance and key: the current window

\* the state of the rate limiters
limiterVars == <<visitors, mu, req, window>>

vars == <<users, sessions, now, proc, issued, consecFailed, resetFrom, lockCount, fiveFailed,
          loggedOut, limiterVars>>

----------------------------------------------------------------------------
(* Bounds of the model *)

NProcs == 2        \* concurrent request goroutines of Spec
NPar == 6          \* parallel failed-login attempts of SpecPar
MaxTime == 24      \* the clock stops advancing here
TickStep == 24     \* hours by which one Tick advances the clock

ElapseStep == 30   \* seconds by which one Elapse advances the clock
MaxElapsed == 90   \* the clock of the rate limiter specifications stops here
MaxExtra == 2      \* isAllowed calls per instance and key beyond the instance's limit

(* Program constants *)

LockThreshold == 5     \* "attempts >= 5", "user.FailedAttempts >= 5"
TokenExpiryHours == 24 \* tokenExpiry: 24 * time.Hour

StandardLimit == 100  \* newRateLimiter(100, time.Minute)
StrictLimit == 10     \* newRateLimiter(10, time.Minute)
Timeframe == 60       \* time.Minute, in seconds

StatusOK == 200
StatusCreated == 201
StatusBadRequest == 400
StatusUnauthorized == 401
StatusForbidden == 403
StatusInternalServerError == 500

Emails == {"a@x.com", "b@x.com"}
RegisterPasswords == {"password123"}
LoginPasswords == {"password123", "wrongpassword"}

Procs == 1 .. NProcs
ParProcs == 1 .. NPar

NullTime == 0 - 1      \* last_login IS NULL

----------------------------------------------------------------------------
(* Errors (service and repository error values, and raw driver errors) *)

ErrNone == "nil"
ErrInvalidCredentials == "invalid email or password"
ErrAccountLocked == "account is locked due to too many failed attempts"
ErrInvalidToken == "invalid token"
ErrTokenExpired == "token has expired"
ErrUserNotFound == "user not found"
ErrDuplicateEmail == "email already exists"
ErrSessionNotFound == "session not found"
ErrTooManyAttempts == "too many failed login attempts"
\* err.Error() of the driver for a violated UNIQUE constraint
PgUsersEmailKeyViolation ==
    "ERROR: duplicate key value violates unique constraint \"users_email_key\" (SQLSTATE 23505)"
PgUniqueActiveSessionViolation ==
    "ERROR: duplicate key value violates unique constraint \"unique_active_session\" (SQLSTATE 23505)"

----------------------------------------------------------------------------
(* bcrypt *)

GenerateFromPassword(password) == <<"bcrypt", password>>
CompareHashAndPassword(hash, password) == hash = <<"bcrypt", password>>

----------------------------------------------------------------------------
(* Tokens.  A token string is determined by its header and claims and by   *)
(* the key that signed it.  A string is a tuple; <<>> is the empty string. *)

JwtSecret == "secret"
UnsafeAllowNoneSignatureType == "jwt.UnsafeAllowNoneSignatureType"
NilKey == "nil"

EmptyString == <<>>

\* jwt.NewWithClaims(SigningMethodNone, {"rand": rand}).SignedString(key):
\* signing method none signs only with the key UnsafeAllowNoneSignatureType;
\* with any other key Sign fails and SignedString returns "" and the error.
SignedStringNone(rand, key) ==
    IF key = UnsafeAllowNoneSignatureType THEN <<"none", rand>> ELSE EmptyString

\* generateTokenID: "token, _ := ....SignedString(nil); return token"
generateTokenID(nano) == SignedStringNone(nano, NilKey)

\* jwt.NewWithClaims(SigningMethodHS256, claims).SignedString(s.jwtSecret)
SignedStringHS256(sub, exp, jti, key) ==
    [alg |-> "HS256", sub |-> sub, exp |-> exp, jti |-> jti, key |-> key]

\* the signing methods of type *jwt.SigningMethodHMAC
HMACMethods == {"HS256", "HS384", "HS512"}

\* a key of an asymmetric method
RsaPrivateKey == "rsa-private-key"

\* jwt.NewWithClaims(method, claims).SignedString(key), method named by alg
SignedStringWith(alg, sub, exp, jti, key) ==
    [alg |-> alg, sub |-> sub, exp |-> exp, jti |-> jti, key |-> key]

\* values of a claim that are no string: the claim is absent (nil) or a number
NilClaim == <<"interface {}", "nil">>
NumberClaim == <<"interface {}", "float64">>

\* "claims["jti"].(string)" succeeds
IsStringClaim(v) == v \notin {NilClaim, NumberClaim}

\* the run-time panic of a failed type assertion; the call returns nothing
PanicInterfaceConversion == "panic: interface conversion: interface {} is not string"

\* no token: the "" that LoginUser returns beside an error
NoToken == [alg |-> "", sub |-> "", exp |-> 0, jti |-> EmptyString, key |-> ""]
\* a string that is no signed token ("invalid.token.string")
MalformedToken == [alg |-> "?", sub |-> "", exp |-> 0, jti |-> EmptyString, key |-> ""]

\* variant: a token is expired only when now is after exp
JwtParseExpiredAfter(token, t) ==
    IF token.alg \notin HMACMethods \/ token.key # JwtSecret THEN "malformed"
    ELSE IF t > token.exp THEN "expired"
    ELSE "valid"

\* jwt.Parse with the key function of ValidateToken and LogoutUser:
\* the method must be HMAC, the signature must verify under jwtSecret and
\* exp must be in the future (now before exp).
JwtParse(token, t) ==
    IF token.alg \notin HMACMethods \/ token.key # JwtSecret THEN "malformed"
    ELSE IF ~(t < token.exp) THEN "expired"
    ELSE "valid"

----------------------------------------------------------------------------
(* Repository: the SQL statements *)

\* variant: the SELECT without "AND is_active = true"
GetUserByEmailAnyStatus(email) ==
    email \in DOMAIN users

\* SELECT ... FROM users WHERE email = $1 AND is_active = true
GetUserByEmailFound(email) ==
    email \in DOMAIN users /\ users[email].is_active

\* variant: the counter written back from an earlier read (read, add, write)
IncrementedFromStaleRead(stored) == 1 .. (stored + 1)

\* SET failed_login_attempts = failed_login_attempts + 1 RETURNING ...:
\* the values the statement can store and return, given the stored one
IncrementedAttempts(stored) == {stored + 1}

\* variant: "if attempts > 5"
IncrementDeactivatesAbove(attempts) == attempts > LockThreshold

\* "if attempts >= 5": the second statement of IncrementFailedAttempts runs
IncrementDeactivates(attempts) == attempts >= LockThreshold

\* variant: "if user.FailedAttempts > 5"
KnownLockedAbove(failedAttempts) == failedAttempts > LockThreshold

\* "if user.FailedAttempts >= 5" of LoginUser
KnownLocked(failedAttempts) == failedAttempts >= LockThreshold

\* variant: the UPDATE without "failed_login_attempts = 0"
UpdateLastLoginStampOnly(row, t) ==
    [row EXCEPT !.last_login = t]

\* UPDATE users SET last_login = CURRENT_TIMESTAMP, failed_login_attempts = 0
UpdateLastLoginRow(row, t) ==
    [row EXCEPT !.last_login = t, !.failed_login_attempts = 0]

\* sessions rows with token_id = $1
SessionsWithTokenID(tokenID) == {s \in sessions : s.token_id = tokenID}

\* variant: "INSERT ... ON CONFLICT DO NOTHING", which reports no conflict
SessionConflictsIgnored(userID, tokenID) == FALSE

\* CONSTRAINT unique_active_session UNIQUE (user_id, token_id)
SessionConflicts(userID, tokenID) ==
    \E s \in sessions : s.user_id = userID /\ s.token_id = tokenID

\* "return !isRevoked && time.Now().Before(expiresAt)" on the scanned row
SessionRowValid(row, t) == ~row.is_revoked /\ t < row.expires_at

\* variant: "WHERE token_id = $1 AND is_revoked = false"
RevokeRowsAffectedLiveOnly(tokenID) ==
    Cardinality({s \in SessionsWithTokenID(tokenID) : ~s.is_revoked})

\* result.RowsAffected() of the UPDATE of RevokeSession
RevokeRowsAffected(tokenID) == Cardinality(SessionsWithTokenID(tokenID))

\* "if result.RowsAffected() == 0 { return ErrSessionNotFound }; return err"
RevokeSessionError(tokenID) ==
    IF RevokeRowsAffected(tokenID) = 0 THEN ErrSessionNotFound ELSE ErrNone

\* the error of a statement that did not reach the database
StoreFailure == "conn closed"

\* "if result.RowsAffected() == 0 { return ErrSessionNotFound }; return err",
\* given the result and the error of Exec
RevokeSessionReturn(rowsAffected, execErr) ==
    IF rowsAffected = 0 THEN ErrSessionNotFound ELSE execErr

\* UPDATE sessions SET is_revoked = true WHERE token_id = $1
RevokedSessions(tokenID) ==
    {IF s.token_id = tokenID THEN [s EXCEPT !.is_revoked = TRUE] ELSE s : s \in sessions}

----------------------------------------------------------------------------
(* Handlers: error -> HTTP status *)

RegisterStatus(err) ==
    IF err = ErrNone THEN StatusCreated
    ELSE IF err = ErrInvalidCredentials THEN StatusBadRequest
    ELSE StatusInternalServerError

LoginStatus(err) ==
    IF err = ErrNone THEN StatusOK
    ELSE IF err = ErrInvalidCredentials THEN StatusUnauthorized
    ELSE IF err \in {ErrAccountLocked, ErrTooManyAttempts} THEN StatusForbidden
    ELSE StatusInternalServerError

LogoutStatus(err) ==
    IF err = ErrNone THEN StatusOK
    ELSE IF err = ErrInvalidToken THEN StatusUnauthorized
    ELSE StatusInternalServerError

----------------------------------------------------------------------------
(* Request goroutines *)

\* A goroutine that has made no call yet.  Locals of a call: email, password,
\* token (the arguments); err and out are what the call returned.  History of
\* the call: afterFive (it started after 5 consecutive failed logins had
\* completed against its account), afterLogout (it started after a LogoutUser
\* of its token had returned nil), lockedAtReturn (the account was inactive
\* when the call returned its token).  A repository call made directly has
\* tokenID as its argument and, for IsSessionValid, valid as its answer;
\* storeFailed: a statement of the call did not reach the database;
\* touched: the UPDATE of UpdateLastLogin made by the call changed the
\* counter or the last-login time of the account.
Idle ==
    [pc |-> "idle", op |-> "none", email |-> "", password |-> "", token |-> NoToken,
     tokenID |-> EmptyString, err |-> ErrNone, out |-> NoToken, valid |-> FALSE,
     storeFailed |-> FALSE, touched |-> FALSE,
     afterFive |-> FALSE, afterLogout |-> FALSE, lockedAtReturn |-> FALSE]

\* the call of goroutine p returns (error, output)
Return(p, error, output) ==
    [proc[p] EXCEPT !.pc = "done", !.err = error, !.out = output]

\* the call operation(email, password) returns at once
Returned(operation, e, pw, error) ==
    [Idle EXCEPT !.pc = "done", !.op = operation, !.email = e, !.password = pw, !.err = error]

AtRest(p) == proc[p].pc \in {"idle", "done"}

----------------------------------------------------------------------------
(* Rate limiters (middleware).  In the specifications of the rate limiters  *)
(* the clock counts seconds.                                                *)

\* the state of the service
serviceVars ==
    <<users, sessions, proc, issued, consecFailed, resetFrom, lockCount, fiveFailed, loggedOut>>

\* the limiter instances main builds: r.Use(RateLimiter()) on the router,
\* StrictRateLimiter() on the register/login group, RateLimiter() on the
\* logout group
Instances == {"global", "strict", "logout"}

\* rl.limit of an instance
Limit(i) == IF i = "strict" THEN StrictLimit ELSE StandardLimit

\* r.RemoteAddr of the clients
Keys == {"127.0.0.1:12345", "127.0.0.2:12345"}

\* a goroutine outside isAllowed that has made no call.  Locals of a call:
\* inst (the limiter), ip, t (now := time.Now()), branch (the path taken),
\* allowed (the result).  History of the call: late (it arrived a timeframe
\* or more after the window of its key had started), atBrink (when it was
\* made the stored count of its key was one below the limit).
NoRequest ==
    [pc |-> "idle", inst |-> "", ip |-> "", t |-> 0, branch |-> "", allowed |-> FALSE,
     late |-> FALSE, atBrink |-> FALSE]

\* history of a key without requests; where recording is set, log holds the
\* number of requests admitted at each time
NoWindow ==
    [start |-> 0, arrived |-> 0, admitted |-> 0, calls |-> 0, recording |-> FALSE,
     log |-> <<>>]

\* the log with one more request admitted at time t
Logged(log, t) ==
    [u \in DOMAIN log \cup {t} |->
        IF u = t THEN (IF t \in DOMAIN log THEN log[t] ELSE 0) + 1 ELSE log[u]]

\* newRateLimiter: visitors: make(map[string]*visitor)
LimiterInit ==
    /\ visitors = [i \in Instances |-> [k \in {} |-> 0]]
    /\ mu = [i \in Instances |-> 0]
    /\ req = [p \in Procs |-> NoRequest]
    /\ window = [i \in Instances |-> [k \in Keys |-> NoWindow]]

\* variant: one limiter behind every middleware (a package-level limiter)
LimiterShared(i) == "global"

\* "rl := newRateLimiter(...)": the limiter the middleware instance i closes over
LimiterOf(i) == i

\* variant: rl.RLock(), which goroutines hold together
MutexShared(holder) == TRUE

\* rl.Lock() returns when no goroutine holds the mutex
MutexFree(holder) == holder = 0

\* variant: "now.Sub(v.lastAccess) >= rl.timeframe"
TimeframePassedAt(t, lastAccess) == t - lastAccess >= Timeframe

\* "if now.Sub(v.lastAccess) > rl.timeframe"
TimeframePassed(t, lastAccess) == t - lastAccess > Timeframe

\* variant: "if v.count > rl.limit"
LimitExceeded(count, limit) == count > limit

\* "if v.count >= rl.limit"
LimitReached(count, limit) == count >= limit

\* the path isAllowed takes for the entry v of the key (exists: it has one)
Branch(exists, v, t, limit) ==
    IF ~exists THEN "create"
    ELSE IF TimeframePassed(t, v.lastAccess) THEN "reset"
    ELSE IF LimitReached(v.count, limit) THEN "reject"
    ELSE "increment"

\* variant: the map keyed by a request header that no request carries
EntryKeyOfHeader(remoteAddr) == ""

\* "ip := r.RemoteAddr": the key of the client's entry in rl.visitors
EntryKey(remoteAddr) == remoteAddr

\* "v, exists := rl.visitors[ip]"
Exists(rl, ip) == ip \in DOMAIN visitors[rl]
Visitor(rl, ip) == IF Exists(rl, ip) THEN visitors[rl][ip] ELSE [count |-> 0, lastAccess |-> 0]

\* the middleware of instance i calls rl.isAllowed(ip) for a request: the
\* part of the step that concerns the limiter
isAllowedEnter(p, i, ip) ==
    /\ req[p].pc \in {"idle", "done"}
    /\ window[i][ip].calls < Limit(i) + MaxExtra
    /\ req' = [req EXCEPT ![p] =
           [NoRequest EXCEPT !.pc = "lock", !.inst = i, !.ip = ip,
                             !.atBrink =
                                 /\ Exists(LimiterOf(i), EntryKey(ip))
                                 /\ Visitor(LimiterOf(i), EntryKey(ip)).count = Limit(i) - 1]]
    /\ window' = [window EXCEPT ![i][ip].calls = @ + 1]
    /\ UNCHANGED <<visitors, mu, now>>

\* the middleware of instance i calls rl.isAllowed(ip) for a request
isAllowedCall(p, i, ip) ==
    /\ isAllowedEnter(p, i, ip)
    /\ UNCHANGED serviceVars

\* rl.Lock() returns
isAllowedLock(p) ==
    /\ req[p].pc = "lock"
    /\ MutexFree(mu[LimiterOf(req[p].inst)])
    /\ mu' = [mu EXCEPT ![LimiterOf(req[p].inst)] = p]
    /\ req' = [req EXCEPT ![p].pc = "check"]
    /\ UNCHANGED <<visitors, window, now>>
    /\ UNCHANGED serviceVars

\* the window of the key as it is after a request at time t on path branch
WindowAfter(w, t, branch) ==
    LET counted ==
            IF branch \in {"create", "reset"}
            THEN [w EXCEPT !.start = t, !.arrived = 1, !.admitted = 1]
            ELSE IF t - w.start >= Timeframe THEN w
            ELSE [w EXCEPT !.arrived = @ + 1,
                           !.admitted = IF branch = "increment" THEN @ + 1 ELSE @]
    IN  IF w.recording /\ branch # "reject"
        THEN [counted EXCEPT !.log = Logged(w.log, t)]
        ELSE counted

\* the history of a call at time t on path branch, w the window before it
Decided(r, w, t, branch) ==
    [r EXCEPT !.t = t, !.branch = branch, !.allowed = branch # "reject",
              !.late = branch # "create" /\ t - w.start >= Timeframe]

\* "now := time.Now(); v, exists := rl.visitors[ip]" and the conditions;
\* on the path "reject" the call returns false
isAllowedCheck(p) ==
    /\ req[p].pc = "check"
    /\ LET i == req[p].inst
           ip == EntryKey(req[p].ip)
           rl == LimiterOf(i)
           branch == Branch(Exists(rl, ip), Visitor(rl, ip), now, Limit(i))
       IN  IF branch = "reject"
           THEN /\ req' = [req EXCEPT ![p] =
                       [Decided(req[p], window[i][req[p].ip], now, branch)
                           EXCEPT !.pc = "unlock"]]
                /\ window' = [window EXCEPT ![i][req[p].ip] = WindowAfter(@, now, branch)]
           ELSE /\ req' = [req EXCEPT ![p] = [@ EXCEPT !.pc = "update", !.t = now,
                                                       !.branch = branch]]
                /\ UNCHANGED window
    /\ UNCHANGED <<visitors, mu, now>>
    /\ UNCHANGED serviceVars

\* variant: a new visitor starts at count 0
AdmittedFromZero(branch, v, t) ==
    IF branch = "increment"
    THEN [count |-> v.count + 1, lastAccess |-> t]
    ELSE [count |-> IF branch = "create" THEN 0 ELSE 1, lastAccess |-> t]

\* the visitor the key has after an admitted request
Admitted(branch, v, t) ==
    IF branch = "increment"
    THEN [count |-> v.count + 1, lastAccess |-> t]
    ELSE [count |-> 1, lastAccess |-> t]

\* the writes of the admitting paths: "rl.visitors[ip] = &visitor{1, now}",
\* "v.count = 1; v.lastAccess = now", "v.count++; v.lastAccess = now"
isAllowedUpdate(p) ==
    /\ req[p].pc = "update"
    /\ LET i == req[p].inst
           ip == EntryKey(req[p].ip)
           rl == LimiterOf(i)
       IN  /\ visitors' = [visitors EXCEPT ![rl] =
                  [k \in DOMAIN visitors[rl] \cup {ip} |->
                      IF k = ip THEN Admitted(req[p].branch, Visitor(rl, ip), req[p].t)
                      ELSE visitors[rl][k]]]
           /\ req' = [req EXCEPT ![p] =
                  [Decided(req[p], window[i][req[p].ip], req[p].t, req[p].branch)
                      EXCEPT !.pc = "unlock"]]
           /\ window' = [window EXCEPT ![i][req[p].ip] =
                  WindowAfter(@, req[p].t, req[p].branch)]
    /\ UNCHANGED <<mu, now>>
    /\ UNCHANGED serviceVars

\* variant: rl.Unlock() at the end of the admitting paths only, no defer
MutexAfterAdmit(r, holder) == IF r.allowed THEN 0 ELSE holder

\* the holder of the mutex after the call r has returned
MutexAfterReturn(r, holder) == 0

\* "defer rl.Unlock()": the call returns
isAllowedUnlock(p) ==
    /\ req[p].pc = "unlock"
    /\ mu' = [mu EXCEPT ![LimiterOf(req[p].inst)] = MutexAfterReturn(req[p], @)]
    /\ req' = [req EXCEPT ![p].pc = "done"]
    /\ UNCHANGED <<visitors, window, now>>
    /\ UNCHANGED serviceVars

\* time passes
Elapse ==
    /\ now + ElapseStep <= MaxElapsed
    /\ now' = now + ElapseStep
    /\ UNCHANGED <<visitors, mu, req, window>>
    /\ UNCHANGED serviceVars

Init ==
    /\ users = [e \in {} |-> 0]
    /\ sessions = {}
    /\ now = 0
    /\ proc = [p \in Procs |-> Idle]
    /\ issued = {}
    /\ consecFailed = [e \in Emails |-> 0]
    /\ resetFrom = [e \in Emails |-> 0]
    /\ lockCount = [e \in Emails |-> 0]
    /\ fiveFailed = {}
    /\ loggedOut = {}
    /\ LimiterInit

----------------------------------------------------------------------------
(* RegisterUser: bcrypt hash, then CreateUser (one INSERT) *)

\* isPgUniqueViolation: err.Error() == "duplicate key value violates unique constraint"
isPgUniqueViolation(errText) ==
    errText = "duplicate key value violates unique constraint"

\* the error CreateUser returns when the INSERT violates UNIQUE(email)
CreateUserDuplicateError ==
    IF isPgUniqueViolation(PgUsersEmailKeyViolation)
    THEN ErrDuplicateEmail
    ELSE PgUsersEmailKeyViolation

NewUserRow(passwordHash) ==
    [password_hash |-> passwordHash, failed_login_attempts |-> 0,
     is_active |-> TRUE, last_login |-> NullTime]

RegisterUser(p, email, password) ==
    /\ AtRest(p)
    /\ IF email \in DOMAIN users
       THEN /\ proc' = [proc EXCEPT ![p] =
                   Returned("register", email, password, CreateUserDuplicateError)]
            /\ UNCHANGED users
       ELSE /\ users' = [e \in DOMAIN users \cup {email} |->
                   IF e = email THEN NewUserRow(GenerateFromPassword(password))
                   ELSE users[e]]
            /\ proc' = [proc EXCEPT ![p] = Returned("register", email, password, ErrNone)]
    /\ UNCHANGED limiterVars
    /\ UNCHANGED <<sessions, now, issued, consecFailed, resetFrom, lockCount, fiveFailed, loggedOut>>

----------------------------------------------------------------------------
(* LoginUser *)

\* variant: the repository's error passed on to the caller
LoginLookupErrorPassedOn == ErrUserNotFound

\* "if err == repository.ErrUserNotFound { return "", ErrInvalidCredentials }"
LoginLookupError == ErrInvalidCredentials

\* GetUserByEmail, the check of user.FailedAttempts and the bcrypt compare
LoginGetUser(p, email, password) ==
    /\ AtRest(p)
    /\ LET ret(error) == [Returned("login", email, password, error)
                             EXCEPT !.afterFive = email \in fiveFailed]
           next(pos) == [ret(ErrNone) EXCEPT !.pc = pos]
       IN  proc' = [proc EXCEPT ![p] =
               IF ~GetUserByEmailFound(email) THEN ret(LoginLookupError)
               ELSE IF KnownLocked(users[email].failed_login_attempts)
                    THEN ret(ErrAccountLocked)
               ELSE IF ~CompareHashAndPassword(users[email].password_hash, password)
                    THEN next("increment")
               ELSE next("update_last_login")]
    /\ UNCHANGED limiterVars
    /\ UNCHANGED <<users, sessions, now, issued, consecFailed, resetFrom, lockCount, fiveFailed,
                   loggedOut>>

\* IncrementFailedAttempts, first statement: UPDATE ... + 1 RETURNING
LoginIncrement(p) ==
    /\ proc[p].pc = "increment"
    /\ LET e == proc[p].email
       IN  \E attempts \in IncrementedAttempts(users[e].failed_login_attempts) :
           /\ users' = [users EXCEPT ![e].failed_login_attempts = attempts]
           /\ IF IncrementDeactivates(attempts)
              THEN /\ proc' = [proc EXCEPT ![p].pc = "deactivate"]
                   /\ UNCHANGED <<consecFailed, fiveFailed>>
              ELSE /\ proc' = [proc EXCEPT ![p] = Return(p, ErrInvalidCredentials, NoToken)]
                   /\ consecFailed' = [consecFailed EXCEPT ![e] = @ + 1]
                   /\ fiveFailed' = IF consecFailed[e] + 1 >= LockThreshold
                                     THEN fiveFailed \cup {e} ELSE fiveFailed
    /\ UNCHANGED limiterVars
    /\ UNCHANGED <<sessions, now, issued, resetFrom, lockCount, loggedOut>>

\* IncrementFailedAttempts, second statement: UPDATE ... SET is_active = false;
\* it returns ErrTooManyAttempts, which LoginUser turns into ErrAccountLocked
LoginDeactivate(p) ==
    /\ proc[p].pc = "deactivate"
    /\ LET e == proc[p].email
       IN  /\ users' = [users EXCEPT ![e].is_active = FALSE]
           /\ lockCount' = [lockCount EXCEPT ![e] = @ + 1]
           /\ consecFailed' = [consecFailed EXCEPT ![e] = @ + 1]
           /\ fiveFailed' = IF consecFailed[e] + 1 >= LockThreshold
                             THEN fiveFailed \cup {e} ELSE fiveFailed
    /\ proc' = [proc EXCEPT ![p] = Return(p, ErrAccountLocked, NoToken)]
    /\ UNCHANGED limiterVars
    /\ UNCHANGED <<sessions, now, issued, resetFrom, loggedOut>>

\* UpdateLastLogin
LoginUpdateLastLogin(p) ==
    /\ proc[p].pc = "update_last_login"
    /\ LET e == proc[p].email
       IN  /\ users' = [users EXCEPT ![e] = UpdateLastLoginRow(users[e], now)]
           /\ resetFrom' = [resetFrom EXCEPT ![e] = consecFailed[e]]
           /\ consecFailed' = [consecFailed EXCEPT ![e] = 0]
    /\ proc' = [proc EXCEPT ![p].pc = "create_session",
                            ![p].touched =
                                UpdateLastLoginRow(users[proc[p].email], now)
                                    # users[proc[p].email]]
    /\ UNCHANGED limiterVars
    /\ UNCHANGED <<sessions, now, issued, lockCount, fiveFailed, loggedOut>>

\* variant: the row stores the time of issue where it should store the expiry
NewSessionRowIssuedAt(userID, tokenID, expiresAt) ==
    [user_id |-> userID, token_id |-> tokenID, expires_at |-> expiresAt - TokenExpiryHours,
     is_revoked |-> FALSE]

\* INSERT INTO sessions (user_id, token_id, expires_at) VALUES ($1, $2, $3)
NewSessionRow(userID, tokenID, expiresAt) ==
    [user_id |-> userID, token_id |-> tokenID, expires_at |-> expiresAt, is_revoked |-> FALSE]

\* the token is built and signed, then CreateSession (one INSERT)
LoginCreateSession(p) ==
    /\ proc[p].pc = "create_session"
    /\ LET e == proc[p].email
           exp == now + TokenExpiryHours
           jti == generateTokenID(now)
           tokenString == SignedStringHS256(e, exp, jti, JwtSecret)
       IN  IF SessionConflicts(e, jti)
           THEN /\ proc' = [proc EXCEPT ![p] =
                       Return(p, PgUniqueActiveSessionViolation, NoToken)]
                /\ UNCHANGED <<sessions, issued>>
           ELSE /\ sessions' = sessions \cup {NewSessionRow(e, jti, exp)}
                /\ issued' = issued \cup {tokenString}
                /\ proc' = [proc EXCEPT ![p] =
                       [Return(p, ErrNone, tokenString)
                           EXCEPT !.lockedAtReturn = ~users[e].is_active]]
    /\ UNCHANGED limiterVars
    /\ UNCHANGED <<users, now, consecFailed, resetFrom, lockCount, fiveFailed, loggedOut>>

\* LoginUser when the INSERT of CreateSession fails: "return "", err"
LoginCreateSessionStoreFails(p) ==
    /\ proc[p].pc = "create_session"
    /\ proc' = [proc EXCEPT ![p] =
           [Return(p, StoreFailure, NoToken) EXCEPT !.storeFailed = TRUE]]
    /\ UNCHANGED limiterVars
    /\ UNCHANGED <<users, sessions, now, issued, consecFailed, resetFrom, lockCount, fiveFailed,
                   loggedOut>>

----------------------------------------------------------------------------
(* ValidateToken and LogoutUser *)

\* IsSessionValid: QueryRow scans the first row the SELECT returns; the
\* statement has no ORDER BY, so with several rows of one token_id any of
\* them can be the scanned one.  No row: false.
IsSessionValidOutcomes(tokenID, t) ==
    IF SessionsWithTokenID(tokenID) = {}
    THEN {FALSE}
    ELSE {SessionRowValid(row, t) : row \in SessionsWithTokenID(tokenID)}

\* variant: every parse error reported as ErrInvalidToken (as LogoutUser does)
ValidateTokenErrorUniform(tokenString, t, sessionValid) ==
    IF JwtParse(tokenString, t) # "valid" THEN ErrInvalidToken
    ELSE IF ~IsStringClaim(tokenString.jti) THEN PanicInterfaceConversion
    ELSE IF ~sessionValid THEN ErrInvalidToken
    ELSE ErrNone

\* the error ValidateToken returns, given what IsSessionValid answered
ValidateTokenError(tokenString, t, sessionValid) ==
    IF JwtParse(tokenString, t) = "expired" THEN ErrTokenExpired
    ELSE IF JwtParse(tokenString, t) # "valid" THEN ErrInvalidToken
    ELSE IF ~IsStringClaim(tokenString.jti) THEN PanicInterfaceConversion
    ELSE IF ~sessionValid THEN ErrInvalidToken
    ELSE ErrNone

ValidateToken(p, tokenString) ==
    /\ AtRest(p)
    /\ \E sessionValid \in IsSessionValidOutcomes(tokenString.jti, now) :
          LET error == ValidateTokenError(tokenString, now, sessionValid)
          IN  proc' = [proc EXCEPT ![p] =
                  [Returned("validate", "", "", error)
                      EXCEPT !.token = tokenString,
                             !.out = IF error = ErrNone THEN tokenString ELSE NoToken,
                             !.afterLogout = tokenString \in loggedOut]]
    /\ UNCHANGED limiterVars
    /\ UNCHANGED <<users, sessions, now, issued, consecFailed, resetFrom, lockCount, fiveFailed,
                   loggedOut>>

\* the error LogoutUser returns before RevokeSession is reached (nil: none)
LogoutCheckError(tokenString, t, sessionValid) ==
    IF JwtParse(tokenString, t) # "valid" THEN ErrInvalidToken
    ELSE IF ~IsStringClaim(tokenString.jti) THEN PanicInterfaceConversion
    ELSE IF ~sessionValid THEN ErrInvalidToken
    ELSE ErrNone

\* LogoutUser up to and including its IsSessionValid call
LogoutCheck(p, tokenString) ==
    /\ AtRest(p)
    /\ \E sessionValid \in IsSessionValidOutcomes(tokenString.jti, now) :
          LET error == LogoutCheckError(tokenString, now, sessionValid)
          IN  proc' = [proc EXCEPT ![p] =
                  [Returned("logout", "", "", error)
                      EXCEPT !.pc = IF error # ErrNone THEN "done" ELSE "revoke",
                             !.token = tokenString,
                             !.afterLogout = tokenString \in loggedOut]]
    /\ UNCHANGED limiterVars
    /\ UNCHANGED <<users, sessions, now, issued, consecFailed, resetFrom, lockCount, fiveFailed,
                   loggedOut>>

\* RevokeSession: one UPDATE; no row affected is ErrSessionNotFound
LogoutRevoke(p) ==
    /\ proc[p].pc = "revoke"
    /\ LET tokenString == proc[p].token
           error == RevokeSessionError(tokenString.jti)
       IN  /\ sessions' = RevokedSessions(tokenString.jti)
           /\ loggedOut' = IF error = ErrNone THEN loggedOut \cup {tokenString} ELSE loggedOut
           /\ proc' = [proc EXCEPT ![p] = Return(p, error, NoToken)]
    /\ UNCHANGED limiterVars
    /\ UNCHANGED <<users, now, issued, consecFailed, resetFrom, lockCount, fiveFailed>>

\* ValidateToken when the SELECT of IsSessionValid fails: "return nil, err"
ValidateTokenStoreFails(p, tokenString) ==
    /\ AtRest(p)
    /\ JwtParse(tokenString, now) = "valid"
    /\ proc' = [proc EXCEPT ![p] =
           [Returned("validate", "", "", StoreFailure)
               EXCEPT !.token = tokenString, !.storeFailed = TRUE,
                      !.afterLogout = tokenString \in loggedOut]]
    /\ UNCHANGED limiterVars
    /\ UNCHANGED <<users, sessions, now, issued, consecFailed, resetFrom, lockCount, fiveFailed,
                   loggedOut>>

\* LogoutUser when the SELECT of IsSessionValid fails: "return err"
LogoutCheckStoreFails(p, tokenString) ==
    /\ AtRest(p)
    /\ JwtParse(tokenString, now) = "valid"
    /\ proc' = [proc EXCEPT ![p] =
           [Returned("logout", "", "", StoreFailure)
               EXCEPT !.token = tokenString, !.storeFailed = TRUE,
                      !.afterLogout = tokenString \in loggedOut]]
    /\ UNCHANGED limiterVars
    /\ UNCHANGED <<users, sessions, now, issued, consecFailed, resetFrom, lockCount, fiveFailed,
                   loggedOut>>

\* LogoutUser when the UPDATE of RevokeSession fails: Exec returns a nil
\* command tag, whose RowsAffected() is 0, and the error
LogoutRevokeStoreFails(p) ==
    /\ proc[p].pc = "revoke"
    /\ proc' = [proc EXCEPT ![p] =
           [Return(p, RevokeSessionReturn(0, StoreFailure), NoToken)
               EXCEPT !.storeFailed = TRUE]]
    /\ UNCHANGED limiterVars
    /\ UNCHANGED <<users, sessions, now, issued, consecFailed, resetFrom, lockCount, fiveFailed,
                   loggedOut>>

----------------------------------------------------------------------------
(* The clock *)

Tick ==
    /\ now + TickStep <= MaxTime
    /\ now' = now + TickStep
    /\ UNCHANGED limiterVars
    /\ UNCHANGED <<users, sessions, proc, issued, consecFailed, resetFrom, lockCount, fiveFailed,
                   loggedOut>>

----------------------------------------------------------------------------
(* Specifications *)

\* token strings a client can present
PresentableTokens == issued \cup {MalformedToken}

Register(p) == \E e \in Emails, pw \in RegisterPasswords : RegisterUser(p, e, pw)
Login(p) == \E e \in Emails, pw \in LoginPasswords : LoginGetUser(p, e, pw)
Validate(p) == \E t \in PresentableTokens : ValidateToken(p, t)
Logout(p) == \E t \in PresentableTokens : LogoutCheck(p, t)

\* the whole service: concurrent requests of every kind
Next ==
    \/ Tick
    \/ \E p \in Procs :
          \/ Register(p)
          \/ Login(p)
          \/ LoginIncrement(p)
          \/ LoginDeactivate(p)
          \/ LoginUpdateLastLogin(p)
          \/ LoginCreateSession(p)
          \/ Validate(p)
          \/ Logout(p)
          \/ LogoutRevoke(p)
Spec == Init /\ [][Next]_vars

\* registration and login requests for one email
LockEmail == "a@x.com"
LockRegister(p) == \E pw \in RegisterPasswords : RegisterUser(p, LockEmail, pw)
LockLogin(p) == \E pw \in LoginPasswords : LoginGetUser(p, LockEmail, pw)
LockStep(p) ==
    \/ LockRegister(p)
    \/ LockLogin(p)
    \/ LoginIncrement(p)
    \/ LoginDeactivate(p)
    \/ LoginUpdateLastLogin(p)
    \/ LoginCreateSession(p)

\* requests one after the other, the INSERT of CreateSession may fail
NextLoginStore ==
    \/ Tick
    \/ LockStep(1)
    \/ LoginCreateSessionStoreFails(1)
SpecLoginStore == Init /\ [][NextLoginStore]_vars

\* concurrent registration and login requests
NextLock == \E p \in Procs : LockStep(p)
SpecLock == Init /\ [][NextLock]_vars

\* sequential requests: one client, each request sent after the previous returned
NextSeq == LockStep(1)
SpecSeq == Init /\ [][NextSeq]_vars

\* NPar parallel wrong-password logins, one per goroutine, against a fresh account
InitPar ==
    /\ users = [e \in {LockEmail} |-> NewUserRow(GenerateFromPassword("password123"))]
    /\ sessions = {}
    /\ now = 0
    /\ proc = [p \in ParProcs |-> Idle]
    /\ issued = {}
    /\ consecFailed = [e \in Emails |-> 0]
    /\ resetFrom = [e \in Emails |-> 0]
    /\ lockCount = [e \in Emails |-> 0]
    /\ fiveFailed = {}
    /\ loggedOut = {}
    /\ LimiterInit
ParLogin(p) == proc[p].pc = "idle" /\ LoginGetUser(p, LockEmail, "wrongpassword")
NextPar == \E p \in ParProcs : ParLogin(p) \/ LoginIncrement(p) \/ LoginDeactivate(p)
SpecPar == InitPar /\ [][NextPar]_vars

\* sessions: registration, logins with the right password, validation, logout, time
SessionLogin(p) == \E e \in Emails : LoginGetUser(p, e, "password123")
NextSession ==
    \/ Tick
    \/ \E p \in Procs :
          \/ Register(p)
          \/ SessionLogin(p)
          \/ LoginUpdateLastLogin(p)
          \/ LoginCreateSession(p)
          \/ Validate(p)
          \/ Logout(p)
          \/ LogoutRevoke(p)
SpecSession == Init /\ [][NextSession]_vars

\* one account, concurrent requests: registration, logins with the right
\* password, validation, logout, time
OwnLogin(p) == LoginGetUser(p, LockEmail, "password123")
NextOwn ==
    \/ Tick
    \/ \E p \in Procs :
          \/ LockRegister(p)
          \/ OwnLogin(p)
          \/ LoginUpdateLastLogin(p)
          \/ LoginCreateSession(p)
          \/ Validate(p)
          \/ Logout(p)
          \/ LogoutRevoke(p)
SpecOwn == Init /\ [][NextOwn]_vars

\* clients that take turns: a request is sent when no request is in progress
TurnStep(p) ==
    \/ LockRegister(p)
    \/ Login(p)
    \/ LoginIncrement(p)
    \/ LoginDeactivate(p)
    \/ LoginUpdateLastLogin(p)
    \/ LoginCreateSession(p)
NextTurns == \E p \in Procs : (\A q \in Procs : q = p \/ AtRest(q)) /\ TurnStep(p)
SpecTurns == Init /\ [][NextTurns]_vars

----------------------------------------------------------------------------
(* The repository called directly (as its tests call it), and ValidateToken *)
(* on tokens signed with the service's secret.                              *)

\* token ids: the one generateTokenID returns and one of the tests
TokenIDs == {EmptyString, <<"test-token">>}

\* the call operation(tokenID) of the repository returns error
RepoReturned(operation, tokenID, error) ==
    [Idle EXCEPT !.pc = "done", !.op = operation, !.tokenID = tokenID, !.err = error]

\* CreateSession: one INSERT; the constraint is UNIQUE (user_id, token_id)
CreateSession(p, userID, tokenID, expiresAt) ==
    /\ AtRest(p)
    /\ IF SessionConflicts(userID, tokenID)
       THEN /\ proc' = [proc EXCEPT ![p] =
                   [RepoReturned("CreateSession", tokenID, PgUniqueActiveSessionViolation)
                       EXCEPT !.email = userID]]
            /\ UNCHANGED sessions
       ELSE /\ sessions' = sessions \cup {NewSessionRow(userID, tokenID, expiresAt)}
            /\ proc' = [proc EXCEPT ![p] =
                   [RepoReturned("CreateSession", tokenID, ErrNone) EXCEPT !.email = userID]]
    /\ UNCHANGED limiterVars
    /\ UNCHANGED <<users, now, issued, consecFailed, resetFrom, lockCount, fiveFailed, loggedOut>>

\* RevokeSession: one UPDATE
RevokeSession(p, tokenID) ==
    /\ AtRest(p)
    /\ sessions' = RevokedSessions(tokenID)
    /\ proc' = [proc EXCEPT ![p] =
           RepoReturned("RevokeSession", tokenID, RevokeSessionError(tokenID))]
    /\ UNCHANGED limiterVars
    /\ UNCHANGED <<users, now, issued, consecFailed, resetFrom, lockCount, fiveFailed, loggedOut>>

\* RevokeSession when the UPDATE fails
RevokeSessionStoreFails(p, tokenID) ==
    /\ AtRest(p)
    /\ proc' = [proc EXCEPT ![p] =
           [RepoReturned("RevokeSession", tokenID, RevokeSessionReturn(0, StoreFailure))
               EXCEPT !.storeFailed = TRUE]]
    /\ UNCHANGED limiterVars
    /\ UNCHANGED <<users, sessions, now, issued, consecFailed, resetFrom, lockCount, fiveFailed,
                   loggedOut>>

\* IsSessionValid: one SELECT, then the check of the scanned row
IsSessionValid(p, tokenID) ==
    /\ AtRest(p)
    /\ \E answer \in IsSessionValidOutcomes(tokenID, now) :
          proc' = [proc EXCEPT ![p] =
              [RepoReturned("IsSessionValid", tokenID, ErrNone) EXCEPT !.valid = answer]]
    /\ UNCHANGED limiterVars
    /\ UNCHANGED <<users, sessions, now, issued, consecFailed, resetFrom, lockCount, fiveFailed,
                   loggedOut>>

\* tokens signed with the service's secret (the tests sign their own)
SignedTokens ==
    {SignedStringHS256(e, TokenExpiryHours, id, JwtSecret) : e \in Emails, id \in TokenIDs}

\* both accounts exist (sessions.user_id REFERENCES users), no session yet
InitRepo ==
    /\ users = [e \in Emails |-> NewUserRow(GenerateFromPassword("password123"))]
    /\ sessions = {}
    /\ now = 0
    /\ proc = [p \in Procs |-> Idle]
    /\ issued = {}
    /\ consecFailed = [e \in Emails |-> 0]
    /\ resetFrom = [e \in Emails |-> 0]
    /\ lockCount = [e \in Emails |-> 0]
    /\ fiveFailed = {}
    /\ loggedOut = {}
    /\ LimiterInit

RepoCreate(p) ==
    \E e \in Emails, id \in TokenIDs : CreateSession(p, e, id, now + TokenExpiryHours)
RepoRevoke(p) == \E id \in TokenIDs : RevokeSession(p, id)
RepoIsValid(p) == \E id \in TokenIDs : IsSessionValid(p, id)
RepoValidate(p) == \E t \in SignedTokens : ValidateToken(p, t)
\* one caller makes every call, a second one repeats revocations; each call is
\* one statement, so more callers add no interleaving of statements
NextRepo ==
    \/ Tick
    \/ RepoCreate(1)
    \/ RepoRevoke(1)
    \/ RepoIsValid(1)
    \/ RepoValidate(1)
    \/ RepoRevoke(2)
SpecRepo == InitRepo /\ [][NextRepo]_vars

\* sessions made and revoked through the repository, ValidateToken called by
\* every goroutine on tokens of one account
OwnSignedTokens == {t \in SignedTokens : t.sub = LockEmail}
NextValidate ==
    \/ Tick
    \/ RepoCreate(1)
    \/ RepoRevoke(1)
    \/ \E p \in Procs : \E t \in OwnSignedTokens : ValidateToken(p, t)
SpecValidate == InitRepo /\ [][NextValidate]_vars

\* two goroutines that log out and one that logs in and validates
LogoutCallers == {1, 2}
Client == 3
InitLogout ==
    /\ users = [e \in Emails |-> NewUserRow(GenerateFromPassword("password123"))]
    /\ sessions = {}
    /\ now = 0
    /\ proc = [p \in LogoutCallers \cup {Client} |-> Idle]
    /\ issued = {}
    /\ consecFailed = [e \in Emails |-> 0]
    /\ resetFrom = [e \in Emails |-> 0]
    /\ lockCount = [e \in Emails |-> 0]
    /\ fiveFailed = {}
    /\ loggedOut = {}
    /\ LimiterInit

\* both accounts exist; the client logs in and validates tokens while two
\* LogoutUser calls run side by side
NextLogout ==
    \/ \E e \in Emails : LoginGetUser(Client, e, "password123")
    \/ LoginUpdateLastLogin(Client)
    \/ LoginCreateSession(Client)
    \/ Validate(Client)
    \/ \E p \in LogoutCallers : Logout(p) \/ LogoutRevoke(p)
SpecLogout == InitLogout /\ [][NextLogout]_vars

\* tokens for the first account signed with other methods and keys
AlgTokens ==
    {SignedStringWith(m[1], LockEmail, TokenExpiryHours, id, m[2]) :
        m \in {<<"HS256", JwtSecret>>, <<"HS384", JwtSecret>>, <<"HS512", JwtSecret>>,
               <<"none", UnsafeAllowNoneSignatureType>>, <<"RS256", RsaPrivateKey>>},
        id \in TokenIDs}

\* sessions made through the repository, ValidateToken and LogoutUser called
\* with tokens of every signing method
NextAlg ==
    \/ Tick
    \/ RepoCreate(1)
    \/ \E t \in AlgTokens : ValidateToken(1, t) \/ LogoutCheck(1, t)
    \/ LogoutRevoke(1)
SpecAlg == InitRepo /\ [][NextAlg]_vars

\* tokens for the first account signed with the secret, with and without a
\* string as jti
JtiTokens ==
    {SignedStringHS256(LockEmail, TokenExpiryHours, id, JwtSecret) :
        id \in TokenIDs \cup {NilClaim, NumberClaim}}

\* sessions made through the repository, ValidateToken and LogoutUser called
\* with those tokens
NextJti ==
    \/ Tick
    \/ RepoCreate(1)
    \/ \E t \in JtiTokens : ValidateToken(1, t) \/ LogoutCheck(1, t)
    \/ LogoutRevoke(1)
SpecJti == InitRepo /\ [][NextJti]_vars

\* sessions made through the repository, then calls during which the store
\* may fail
NextStore ==
    \/ Tick
    \/ RepoCreate(1)
    \/ \E t \in OwnSignedTokens :
          \/ ValidateToken(1, t) \/ ValidateTokenStoreFails(1, t)
          \/ LogoutCheck(1, t) \/ LogoutCheckStoreFails(1, t)
    \/ LogoutRevoke(1) \/ LogoutRevokeStoreFails(1)
    \/ \E id \in TokenIDs : RevokeSession(1, id) \/ RevokeSessionStoreFails(1, id)
SpecStore == InitRepo /\ [][NextStore]_vars

----------------------------------------------------------------------------
(* Specifications of the rate limiters *)

\* goroutine p is inside isAllowed
LimiterStep(p) ==
    \/ isAllowedLock(p)
    \/ isAllowedCheck(p)
    \/ isAllowedUpdate(p)
    \/ isAllowedUnlock(p)

\* no instance but i has counted a request
OnlyInstance(i) == \A j \in Instances \ {i} : \A k \in Keys : window[j][k].calls = 0

\* one instance under the requests of one client, over time: the strict
\* instance or a standard one
FirstKey == "127.0.0.1:12345"
NextLimit ==
    \/ Elapse
    \/ \E i \in {"strict", "logout"} : OnlyInstance(i) /\ isAllowedCall(1, i, FirstKey)
    \/ LimiterStep(1)
SpecLimit == Init /\ [][NextLimit]_vars

\* the strict instance under concurrent requests of the clients, within one
\* timeframe
NextLimitPar ==
    \/ \E p \in Procs :
          \/ \E ip \in Keys : isAllowedCall(p, "strict", ip)
          \/ LimiterStep(p)
SpecLimitPar == Init /\ [][NextLimitPar]_vars

\* the strict instance under the requests of two clients, one after the other,
\* over several timeframes
NextLimitKeys ==
    \/ Elapse
    \/ \E ip \in Keys : isAllowedCall(1, "strict", ip)
    \/ LimiterStep(1)
SpecLimitKeys == Init /\ [][NextLimitKeys]_vars

\* the strict instance, the admitted requests of one key recorded
InitWindow ==
    /\ users = [e \in {} |-> 0]
    /\ sessions = {}
    /\ now = 0
    /\ proc = [p \in Procs |-> Idle]
    /\ issued = {}
    /\ consecFailed = [e \in Emails |-> 0]
    /\ resetFrom = [e \in Emails |-> 0]
    /\ lockCount = [e \in Emails |-> 0]
    /\ fiveFailed = {}
    /\ loggedOut = {}
    /\ visitors = [i \in Instances |-> [k \in {} |-> 0]]
    /\ mu = [i \in Instances |-> 0]
    /\ req = [p \in Procs |-> NoRequest]
    /\ window = [i \in Instances |-> [k \in Keys |->
                    IF i = "strict" /\ k = FirstKey
                    THEN [NoWindow EXCEPT !.recording = TRUE] ELSE NoWindow]]
NextWindow ==
    \/ Elapse
    \/ isAllowedCall(1, "strict", FirstKey)
    \/ LimiterStep(1)
SpecWindow == InitWindow /\ [][NextWindow]_vars

\* two goroutines calling the strict instance for one key over several
\* timeframes; a goroutine inside isAllowed goes on running, and rl.Lock()
\* is granted to a goroutine that keeps waiting for it
LiveCallers == {1, 2}
NextLive ==
    \/ Elapse
    \/ \E p \in LiveCallers : isAllowedCall(p, "strict", FirstKey) \/ LimiterStep(p)
SpecLive ==
    /\ Init
    /\ [][NextLive]_vars
    /\ \A p \in LiveCallers :
          /\ SF_vars(isAllowedLock(p))
          /\ WF_vars(isAllowedCheck(p))
          /\ WF_vars(isAllowedUpdate(p))
          /\ WF_vars(isAllowedUnlock(p))

\* variant: the middleware without "return" after http.Error
PassesAlways(r) == TRUE

\* "if !rl.isAllowed(ip) { http.Error(...); return }; next.ServeHTTP(w, r)"
Passes(r) == r.allowed

\* the request of goroutine p has passed the strict limiter and its handler
\* has not started
HandlerDue(p) ==
    /\ req[p].inst = "strict" /\ req[p].pc = "done" /\ Passes(req[p])
    /\ proc[p].pc = "idle"

\* a request arrives and is served by a new goroutine; the global limiter is
\* the first middleware of every route
Arrive(p, ip) ==
    /\ AtRest(p) /\ ~HandlerDue(p)
    /\ isAllowedEnter(p, "global", ip)
    /\ proc' = [proc EXCEPT ![p] = Idle]
    /\ UNCHANGED <<users, sessions, issued, consecFailed, resetFrom, lockCount, fiveFailed,
                   loggedOut>>

\* a request for /auth/register or /auth/login that passed the global
\* limiter comes to the strict limiter
EnterStrict(p) ==
    /\ req[p].inst = "global" /\ req[p].pc = "done" /\ Passes(req[p])
    /\ isAllowedCall(p, "strict", req[p].ip)

\* the handler behind the limiters: Register, or Login with a wrong password
Handle(p) ==
    /\ HandlerDue(p)
    /\ LockRegister(p) \/ LoginGetUser(p, LockEmail, "wrongpassword")

\* requests of one client to /health, /auth/register and /auth/login, one
\* after the other, within one timeframe
NextRoutes ==
    \/ Arrive(1, FirstKey)
    \/ EnterStrict(1)
    \/ LimiterStep(1)
    \/ Handle(1)
    \/ LoginIncrement(1)
    \/ LoginDeactivate(1)
SpecRoutes == Init /\ [][NextRoutes]_vars

\* the instances that have counted a request
UsedInstances == {j \in Instances : \E k \in Keys : window[j][k].calls > 0}

\* two instances at a time under the requests of one client, within one
\* timeframe
NextTiers ==
    \/ \E i \in Instances :
          /\ Cardinality(UsedInstances \cup {i}) <= 2
          /\ isAllowedCall(1, i, FirstKey)
    \/ LimiterStep(1)
SpecTiers == Init /\ [][NextTiers]_vars

----------------------------------------------------------------------------
(* Properties *)

AllProcs == DOMAIN proc
DoneLogin(p) == proc[p].pc = "done" /\ proc[p].op = "login"
\* the password of the call is the one the account was registered with
RightPassword(p) ==
    /\ proc[p].email \in DOMAIN users
    /\ CompareHashAndPassword(users[proc[p].email].password_hash, proc[p].password)
WrongPassword(p) ==
    /\ proc[p].email \in DOMAIN users
    /\ ~CompareHashAndPassword(users[proc[p].email].password_hash, proc[p].password)

\* C1: a LoginUser call that starts after 5 consecutive failed logins have
\* completed against its account returns no token, whatever its password, and
\* such an account is inactive in every later state.
C1_NoTokenAfterFiveFailures ==
    /\ \A p \in AllProcs :
          DoneLogin(p) /\ proc[p].afterFive => proc[p].out = NoToken /\ proc[p].err # ErrNone
    /\ \A e \in fiveFailed : ~users[e].is_active

\* C1 witness: a login with the right password, started after the 5 failures,
\* has been turned away
C1_Witness ==
    \E p \in AllProcs :
        /\ DoneLogin(p) /\ proc[p].afterFive /\ RightPassword(p)
        /\ proc[p].out = NoToken /\ proc[p].err # ErrNone

\* C2: a login with the right password that starts after 5 failed logins have
\* locked the account is answered AccountLocked, HTTP 403.
C2_LockedLoginIsForbidden ==
    \A p \in AllProcs :
        DoneLogin(p) /\ proc[p].afterFive /\ RightPassword(p)
            => /\ proc[p].err = ErrAccountLocked
               /\ LoginStatus(proc[p].err) = StatusForbidden

C4_SuccessResetsCounter ==
    /\ \A p \in AllProcs :
          DoneLogin(p) /\ proc[p].out # NoToken
              => users[proc[p].email].failed_login_attempts = 0
    /\ (\A p \in AllProcs : AtRest(p)) =>
          \A e \in DOMAIN users :
              /\ users[e].is_active => users[e].failed_login_attempts = consecFailed[e]
              /\ consecFailed[e] < LockThreshold
                    => users[e].is_active /\ users[e].failed_login_attempts < LockThreshold

\* C4 witness: 4 failed logins, a successful one, 4 more failed ones
C4_Witness ==
    /\ \A p \in AllProcs : AtRest(p)
    /\ \E e \in DOMAIN users :
          /\ resetFrom[e] = LockThreshold - 1 /\ consecFailed[e] = LockThreshold - 1
          /\ issued # {}
          /\ users[e].is_active /\ users[e].failed_login_attempts = LockThreshold - 1

\* C5: in every state an account whose failure counter is 5 or more is inactive.
C5_ThresholdImpliesInactive ==
    \A e \in DOMAIN users :
        users[e].failed_login_attempts >= LockThreshold => ~users[e].is_active

\* C6: with NPar parallel failed logins against a fresh account the lock
\* transition is performed by one attempt only and the stored counter never
\* exceeds 5, the counter a sequential execution of the attempts ends with.
C6_LockedOnceNoExcess ==
    /\ lockCount[LockEmail] <= 1
    /\ users[LockEmail].failed_login_attempts <= LockThreshold

\* C7: no increment is lost: without a verified login in between, the stored
\* counter is the number of completed IncrementFailedAttempts calls plus the
\* number of calls whose first statement has committed.
C7_NoLostIncrement ==
    users[LockEmail].failed_login_attempts =
        consecFailed[LockEmail]
        + Cardinality({p \in AllProcs : proc[p].pc = "deactivate"})

\* C7 witness: every one of the parallel attempts has completed its increment
C7_Witness ==
    /\ \A p \in AllProcs : proc[p].pc = "done"
    /\ consecFailed[LockEmail] = Cardinality(AllProcs)
    /\ users[LockEmail].failed_login_attempts = Cardinality(AllProcs)

\* C8: no LoginUser call returns a token once the lock of its account has
\* been committed.
C8_NoTokenPastLock ==
    \A p \in AllProcs :
        DoneLogin(p) /\ proc[p].out # NoToken => ~proc[p].lockedAtReturn

\* C9: a ValidateToken call that starts after LogoutUser has returned nil for
\* its token fails (invalid or expired).
C9_LoggedOutTokenRejected ==
    \A p \in AllProcs :
        proc[p].pc = "done" /\ proc[p].op = "validate" /\ proc[p].afterLogout
            => proc[p].err \in {ErrInvalidToken, ErrTokenExpired}

\* C10: a LogoutUser call that starts after LogoutUser has returned nil for
\* its token returns ErrInvalidToken, HTTP 401.
C10_SecondLogoutUnauthorized ==
    \A p \in AllProcs :
        proc[p].pc = "done" /\ proc[p].op = "logout" /\ proc[p].afterLogout
            => /\ proc[p].err = ErrInvalidToken
               /\ LogoutStatus(proc[p].err) = StatusUnauthorized

C12_FreshTokenAccepted ==
    \A p \in AllProcs :
        /\ proc[p].pc = "done" /\ proc[p].op = "validate"
        /\ proc[p].token \in issued
        /\ now < proc[p].token.exp
        /\ loggedOut = {}
        => /\ proc[p].err = ErrNone
           /\ proc[p].out.sub = proc[p].token.sub

\* C13: IsSessionValid answers true exactly when a session with the token id
\* exists that is not revoked and whose expiry is after the current time, and
\* it returns no error.
C13_ValidIffLiveSession ==
    [][\A p \in AllProcs :
          proc'[p] # proc[p] /\ proc'[p].op = "IsSessionValid" =>
              /\ proc'[p].err = ErrNone
              /\ proc'[p].valid <=>
                    \E s \in SessionsWithTokenID(proc'[p].tokenID) :
                        ~s.is_revoked /\ now < s.expires_at]_vars

\* a token with a correct signature under the service's secret
Signed(token) == token.alg = "HS256" /\ token.key = JwtSecret
\* goroutine p makes a ValidateToken call in this step
ValidateStep(p) == proc'[p] # proc[p] /\ proc'[p].op = "validate"

\* C14: expiry is exclusive: a ValidateToken call made when the clock is at or
\* past the exp of a correctly signed token returns ErrTokenExpired and no
\* claims, whatever the state of its session.
C14_ExpiryExclusive ==
    [][\A p \in AllProcs :
          ValidateStep(p) /\ Signed(proc'[p].token) /\ proc'[p].token.exp <= now
              => proc'[p].err = ErrTokenExpired /\ proc'[p].out = NoToken]_vars

\* C14 witness: a token that LoginUser returned has been validated at exactly
\* its expiry instant and was rejected as expired
C14_Witness ==
    \E p \in AllProcs :
        /\ proc[p].pc = "done" /\ proc[p].op = "validate"
        /\ proc[p].token \in issued
        /\ proc[p].token.exp = now
        /\ proc[p].err = ErrTokenExpired

\* C15: once a session of a token id is revoked, IsSessionValid never answers
\* true for that token id again.
C15_RevokedStaysInvalid ==
    [][\A p \in AllProcs :
          /\ proc'[p] # proc[p] /\ proc'[p].op = "IsSessionValid"
          /\ \E s \in SessionsWithTokenID(proc'[p].tokenID) : s.is_revoked
          => ~proc'[p].valid]_vars

\* C16: any two different tokens that LoginUser returned carry different
\* token ids (jti).
C16_TokenIDsUnique ==
    \A t1 \in issued : \A t2 \in issued : t1 # t2 => t1.jti # t2.jti

\* C17: a CreateSession call with a token id that a session already has, of the
\* same or of another account, fails and leaves the sessions as they were, so
\* no two sessions share a token id.
C17_DuplicateSessionRefused ==
    [][/\ \A p \in AllProcs :
              /\ proc'[p] # proc[p] /\ proc'[p].op = "CreateSession"
              /\ SessionsWithTokenID(proc'[p].tokenID) # {}
              => proc'[p].err # ErrNone /\ sessions' = sessions
       /\ \A s1 \in sessions' : \A s2 \in sessions' :
              s1.token_id = s2.token_id => s1 = s2]_vars

\* C18: a RegisterUser call for an email that has an account fails with
\* ErrDuplicateEmail ("email already exists").
C18_DuplicateEmailReported ==
    \A p \in AllProcs :
        proc[p].pc = "done" /\ proc[p].op = "register" /\ proc[p].err # ErrNone
            => proc[p].err = ErrDuplicateEmail

RejectedSigned(p) ==
    /\ proc[p].pc = "done" /\ proc[p].op = "validate"
    /\ Signed(proc[p].token) /\ proc[p].err # ErrNone

DecideStep(p) == req[p].pc \in {"check", "update"} /\ req'[p].pc = "unlock"

Min(a, b) == IF a < b THEN a ELSE b

\* the visitor entries of instance i
Entries(i) == {visitors[LimiterOf(i)][k] : k \in DOMAIN visitors[LimiterOf(i)]}

\* C21: of the requests of one key that arrive within one window (the
\* timeframe that starts with the request that created or reset the entry),
\* the first Limit are admitted and every further one is rejected
C21_FirstLimitAdmitted ==
    [][\A p \in Procs :
         DecideStep(p) =>
            LET i == req[p].inst
                ip == req[p].ip
                w == window'[i][ip]
            IN  ~req'[p].late =>
                   /\ req'[p].allowed <=> w.arrived <= Limit(i)
                   /\ w.admitted = Min(w.arrived, Limit(i))]_vars

\* a request that arrives later in the window, after Limit admitted ones, is rejected
C21_Witness ==
    \E i \in Instances :
       /\ req[1].pc = "done" /\ req[1].inst = i /\ ~req[1].allowed /\ ~req[1].late
       /\ req[1].t > window[i][FirstKey].start
       /\ window[i][FirstKey].arrived = Limit(i) + 1
       /\ window[i][FirstKey].admitted = Limit(i)

\* C22: a request that arrives a timeframe or more after the start of the
\* window of its key resets the count to 1, starts a new window and is admitted
C22_ResetAtWindowEnd ==
    \A p \in Procs :
       (req[p].pc = "done" /\ req[p].late) =>
          /\ req[p].allowed
          /\ req[p].branch = "reset"

\* C23: calls for one key made while its stored count is one below the limit:
\* at most one is admitted, the others are rejected because that one took
\* the last place; and of the calls decided in a window exactly
\* min(calls, limit) are admitted, which is also the stored count
C23_CheckAndIncrementAtomic ==
    /\ \A p, q \in Procs :
          (/\ p # q
           /\ req[p].pc = "done" /\ req[q].pc = "done"
           /\ req[p].ip = req[q].ip
           /\ req[p].atBrink /\ req[q].atBrink)
          => ~(req[p].allowed /\ req[q].allowed)
    /\ \A p \in Procs :
          (req[p].pc = "done" /\ req[p].atBrink /\ ~req[p].allowed)
          => visitors["strict"][req[p].ip].count = StrictLimit
    /\ \A k \in Keys :
          /\ window["strict"][k].admitted = Min(window["strict"][k].arrived, StrictLimit)
          /\ k \in DOMAIN visitors["strict"] =>
                visitors["strict"][k].count = window["strict"][k].admitted

\* two calls made for one key at count limit - 1: one admitted, one rejected
C23_Witness ==
    \E p, q \in Procs :
       /\ p # q
       /\ req[p].pc = "done" /\ req[q].pc = "done"
       /\ req[p].ip = req[q].ip
       /\ req[p].atBrink /\ req[q].atBrink
       /\ req[p].allowed /\ ~req[q].allowed
       /\ visitors["strict"][req[p].ip].count = StrictLimit

\* C24: the count of every entry is between 1 and the limit, and a rejected
\* call changes no entry
C24_CountInRangeRejectionPure ==
    [][/\ \A i \in Instances : \A v \in Entries(i)' : v.count >= 1 /\ v.count <= Limit(i)
       /\ \A p \in Procs :
             (req'[p] # req[p] /\ req'[p].branch = "reject")
             => visitors' = visitors]_vars

\* a rejected call has returned; one key is at the limit and the other at 1
C24_Witness ==
    \E p \in Procs : \E k \in Keys :
       /\ req[p].pc = "done" /\ ~req[p].allowed
       /\ k # req[p].ip
       /\ k \in DOMAIN visitors["strict"]
       /\ visitors["strict"][k].count = 1
       /\ visitors["strict"][k].lastAccess > 0
       /\ visitors["strict"][req[p].ip].count = StrictLimit

\* C27: the limiter instances keep their own counts: a step of a call on one
\* instance changes the entries of no other instance, and the count of an
\* instance is the number of requests that instance admitted
C27_InstancesIndependent ==
    [][/\ \A j \in Instances :
             visitors'[j] # visitors[j] =>
                \E p \in Procs : req[p].inst = j /\ req[p].pc = "update"
       /\ \A j \in Instances :
             FirstKey \in DOMAIN visitors'[j] =>
                visitors'[j][FirstKey].count = window'[j][FirstKey].admitted]_vars

\* the strict instance is full and has rejected; another instance still admits
C27_Witness ==
    \E j \in Instances \ {"strict"} :
       /\ FirstKey \in DOMAIN visitors["strict"]
       /\ visitors["strict"][FirstKey].count = StrictLimit
       /\ window["strict"][FirstKey].arrived > StrictLimit
       /\ req[1].pc = "done" /\ req[1].inst = j /\ req[1].allowed
       /\ visitors[j][FirstKey].count = 1

\* ---------------------------------------------------------------------
\* Effects of LoginUser
\* ---------------------------------------------------------------------

\* goroutine p takes a step of a LoginUser call
LoginStepOf(p) == proc'[p] # proc[p] /\ proc'[p].op = "login"

\* C26: the step on which LoginUser returns a token inserts exactly one
\* session, the one of the token's id for the token's account; every other
\* step of a LoginUser call, and so every failing call, leaves the sessions
\* as they are
C26_OneSessionPerLogin ==
    [][\A p \in Procs :
         LoginStepOf(p) =>
            IF proc'[p].pc = "done" /\ proc'[p].err = ErrNone
            THEN /\ Cardinality(sessions') = Cardinality(sessions) + 1
                 /\ \E row \in sessions' \ sessions :
                       /\ sessions' = sessions \cup {row}
                       /\ row.token_id = proc'[p].out.jti
                       /\ row.user_id = proc'[p].email
                       /\ row.expires_at = proc'[p].out.exp
                       /\ ~row.is_revoked
            ELSE sessions' = sessions]_vars

\* one login returned a token and its session is stored; another failed
C26_Witness ==
    \E p, q \in Procs :
       /\ proc[p].op = "login" /\ proc[p].pc = "done" /\ proc[p].err = ErrNone
       /\ proc[p].out \in issued
       /\ Cardinality(SessionsWithTokenID(proc[p].out.jti)) = 1
       /\ proc[q].op = "login" /\ proc[q].pc = "done"
       /\ proc[q].err = ErrInvalidCredentials
       /\ proc[q].password = "wrongpassword"

\* the account is known to be locked: its row is inactive or its counter is
\* at the threshold
AccountLocked(email) ==
    /\ email \in DOMAIN users
    /\ \/ ~users[email].is_active
       \/ users[email].failed_login_attempts >= LockThreshold

\* C28: a LoginUser call for an account that is locked when the call reads
\* it returns an error on that step, whatever the password, and changes
\* neither the account (counter, active flag, last login) nor the sessions
C28_LockedLoginNoEffect ==
    [][\A p \in Procs :
         (LoginStepOf(p) /\ AtRest(p) /\ AccountLocked(proc'[p].email)) =>
            /\ proc'[p].pc = "done"
            /\ proc'[p].err \in {ErrAccountLocked, ErrInvalidCredentials}
            /\ proc'[p].out = NoToken
            /\ users' = users
            /\ sessions' = sessions]_vars

\* a login with the right password was turned away by the counter check
C28_Witness ==
    \E p \in Procs :
       /\ proc[p].op = "login" /\ proc[p].pc = "done"
       /\ proc[p].password = "password123"
       /\ proc[p].err = ErrAccountLocked
       /\ users[proc[p].email].failed_login_attempts >= LockThreshold

\* ---------------------------------------------------------------------
\* Store failures, signing methods, status of a refused registration
\* ---------------------------------------------------------------------

\* C25: a call of ValidateToken, LogoutUser or RevokeSession during which a
\* statement failed returns the store's error, not InvalidToken,
\* SessionNotFound or nil
C25_StoreFailureReported ==
    \A p \in Procs :
       (proc[p].pc = "done" /\ proc[p].storeFailed) => proc[p].err = StoreFailure

\* C29: ValidateToken and LogoutUser accept no token signed with a method
\* other than HS256
C29_OnlyHS256Accepted ==
    \A p \in Procs :
       (/\ proc[p].pc = "done"
        /\ proc[p].op \in {"validate", "logout"}
        /\ proc[p].token.alg # "HS256")
       => proc[p].err # ErrNone

\* C30: a registration refused because the email has an account is answered
\* with status 409 or 400, not 500
C30_DuplicateRegistrationStatus ==
    \A p \in AllProcs :
        (proc[p].pc = "done" /\ proc[p].op = "register" /\ proc[p].err # ErrNone)
            => RegisterStatus(proc[p].err) \in {409, StatusBadRequest}

\* ---------------------------------------------------------------------
\* Locked accounts, logout and sessions of issued tokens
\* ---------------------------------------------------------------------

\* C36: in every state an inactive account has a stored failure counter of 5
\* or more
C36_LockedCounterKept ==
    \A e \in DOMAIN users :
        ~users[e].is_active => users[e].failed_login_attempts >= LockThreshold

\* C37: the statement of a LogoutUser call with token t changes no session of
\* another account, so every other token valid before it is valid after it
C37_LogoutRevokesOwnSessionOnly ==
    [][\A p \in AllProcs :
          (proc[p].pc = "revoke" /\ proc'[p].pc = "done" /\ proc'[p].err = ErrNone)
          => \A row \in sessions : row.user_id # proc[p].token.sub => row \in sessions']_vars

\* C38: for every token LoginUser has returned there is a session with the
\* token's jti as token id, the token's subject as owner and the token's exp
\* as expiry; a login that returned an error returned no token
C38_IssuedTokenHasSession ==
    /\ \A t \in issued :
          \E row \in sessions :
             /\ row.token_id = t.jti
             /\ row.user_id = t.sub
             /\ row.expires_at = t.exp
    /\ \A p \in AllProcs :
          DoneLogin(p) =>
             /\ proc[p].err # ErrNone => proc[p].out = NoToken
             /\ proc[p].err = ErrNone => proc[p].out \in issued

\* a token was returned, the clock has moved on, and a second login of the
\* account was refused by the store without a token
C38_Witness ==
    /\ \E t \in issued : t.exp = TokenExpiryHours /\ now > 0
    /\ \E p \in AllProcs :
          DoneLogin(p) /\ proc[p].err = PgUniqueActiveSessionViolation /\ proc[p].out = NoToken

\* C31: no LogoutUser call reports SessionNotFound, and a ValidateToken call
\* that starts when two LogoutUser calls for its token have returned, one of
\* them at least with nil, fails
C31_ConcurrentLogoutRevokes ==
    [][/\ \A p \in AllProcs :
             (proc'[p].pc = "done" /\ proc'[p].op = "logout")
             => proc'[p].err # ErrSessionNotFound
       /\ \A p \in AllProcs :
             (/\ ValidateStep(p)
              /\ \A q \in LogoutCallers :
                    /\ proc[q].pc = "done" /\ proc[q].op = "logout"
                    /\ proc[q].token = proc'[p].token
              /\ \E q \in LogoutCallers : proc[q].err = ErrNone)
             => proc'[p].err # ErrNone]_vars

\* C39: ValidateToken and LogoutUser return claims or success or one of the
\* errors InvalidToken, TokenExpired or a store error, for every token
C39_NoAbort ==
    \A p \in AllProcs :
       (proc[p].pc = "done" /\ proc[p].op \in {"validate", "logout"})
       => proc[p].err \in {ErrNone, ErrInvalidToken, ErrTokenExpired, StoreFailure}

\* C40: a LoginUser call that returns an error because the session could not
\* be created has not changed the failure counter or the last-login time of
\* its account
C40_FailedLoginLeavesAccount ==
    \A p \in AllProcs :
       (DoneLogin(p) /\ proc[p].storeFailed) => ~proc[p].touched

\* ---------------------------------------------------------------------
\* Rate limiters in front of the handlers, over time, per key
\* ---------------------------------------------------------------------

\* C32: the handler of a request starts only when the limiters on its route
\* have admitted the request: a rejected request starts no service call, and
\* every step that changes an account or a session belongs to a request
\* that the strict limiter admitted
C32_RejectedNeverHandled ==
    [][/\ \A p \in Procs :
             (req'[p].pc = "done" /\ ~req'[p].allowed) => proc'[p] = Idle
       /\ (users' # users \/ sessions' # sessions) =>
             \E p \in Procs :
                /\ proc'[p] # proc[p]
                /\ req[p].inst = "strict" /\ req[p].pc = "done" /\ req[p].allowed]_vars

\* the strict limiter has rejected a request while the account had 4 failed
\* attempts: the counter is still 4 and the account active
C32_Witness ==
    /\ req[1].pc = "done" /\ req[1].inst = "strict" /\ ~req[1].allowed
    /\ proc[1] = Idle
    /\ LockEmail \in DOMAIN users
    /\ users[LockEmail].failed_login_attempts = LockThreshold - 1
    /\ users[LockEmail].is_active

RECURSIVE SumOver(_, _)
\* the sum of log over the times in S
SumOver(log, S) ==
    IF S = {} THEN 0
    ELSE LET u == CHOOSE x \in S : TRUE IN log[u] + SumOver(log, S \ {u})

\* the number of requests the log has admitted from time a to time b
AdmittedBetween(log, a, b) == SumOver(log, {u \in DOMAIN log : a <= u /\ u <= b})

\* the recorded admissions of the client of the strict instance
StrictLog == window["strict"][FirstKey].log

\* C33: in every interval as long as the timeframe at most limit requests of
\* a key are admitted
C33_LimitInEveryInterval ==
    \A a \in 0 .. MaxElapsed :
       AdmittedBetween(StrictLog, a, a + Timeframe) <= StrictLimit

\* more than limit requests have been admitted in all, on both sides of a reset
C33_Witness ==
    /\ AdmittedBetween(StrictLog, 0, MaxElapsed) > StrictLimit
    /\ 0 \in DOMAIN StrictLog /\ StrictLog[0] = StrictLimit
    /\ window["strict"][FirstKey].start > Timeframe

\* C34: a call made more than a timeframe after the last admitted request of
\* its key is admitted, and every isAllowed call returns
C34_NoKeyThrottledForever ==
    /\ [][\A p \in LiveCallers :
            (/\ DecideStep(p)
             /\ Exists(LimiterOf(req[p].inst), EntryKey(req[p].ip))
             /\ req'[p].t - Visitor(LimiterOf(req[p].inst), EntryKey(req[p].ip)).lastAccess
                   > Timeframe)
            => req'[p].allowed]_vars
    /\ \A p \in LiveCallers : (req[p].pc \notin {"idle", "done"}) ~> (req[p].pc = "done")

\* a request of the key was rejected, and a later one, after the timeframe
\* had passed, was admitted
C34_Witness ==
    /\ req[1].pc = "done" /\ ~req[1].allowed
    /\ req[2].pc = "done" /\ req[2].allowed /\ req[2].branch = "reset"
    /\ req[2].ip = req[1].ip
    /\ req[2].t > req[1].t

\* the entry that the requests of the client with address k use, and whether
\* a request of k now would be admitted
EntryOf(k) == Visitor("strict", EntryKey(k))
HasEntry(k) == Exists("strict", EntryKey(k))
WouldAdmit(k) == Branch(HasEntry(k), EntryOf(k), now, StrictLimit) # "reject"

\* C35: a step of an isAllowed call for one key changes neither the entry of
\* another key nor whether the next request of that key is admitted
C35_KeysIsolated ==
    [][\A p \in Procs :
          req'[p] # req[p] =>
             \A k \in Keys \ {req'[p].ip} :
                /\ HasEntry(k)' = HasEntry(k)
                /\ EntryOf(k)' = EntryOf(k)
                /\ WouldAdmit(k)' = WouldAdmit(k)]_vars

\* one key is at its limit and rejected, the other has an entry one below
\* the limit and its next request would be admitted
C35_Witness ==
    \E p \in Procs : \E k \in Keys :
       /\ req[p].pc = "done" /\ ~req[p].allowed /\ k # req[p].ip
       /\ HasEntry(k) /\ EntryOf(k).count = StrictLimit - 1
       /\ WouldAdmit(k)
       /\ ~WouldAdmit(req[p].ip)

====
